---- MODULE Spec2Model ----
(***************************************************************************)
(* Model of src/base.rs: the Hal trait (raw primitives plus the derived    *)
(* register/buffer operations) and the Base bus adapter, driven against a  *)
(* bus, two pins and a timer that may fail.                                *)
(*                                                                         *)
(* All calls are synchronous and single-threaded, so one action is one     *)
(* whole call.  A call is computed as the SET of its possible outcomes:    *)
(* every step on an external resource (pin drive, bus write, bus transfer, *)
(* busy-wait) contributes one outcome per way it can end.  The steps a     *)
(* call performs are recorded, in order, in its log.                       *)
(***************************************************************************)
EXTENDS Integers, Sequences, FiniteSets, TLC

\* ---------------------------------------------------------------- bounds
\* Longest payload / read buffer a caller passes.
MaxLen == 2

\* ------------------------------------------------------- program constants
\* 0x7F: the address mask of read_regs.
AddrMask == 127
\* 0x80: the direction flag of write_regs and write_buff.
WriteFlag == 128
\* The two delays of reset(), in milliseconds.
ResetLowMs == 1
ResetHighMs == 10

\* ------------------------------------------------------------ u8 arithmetic
RECURSIVE BitAnd(_, _)
BitAnd(a, b) ==
  IF a = 0 \/ b = 0 THEN 0
  ELSE (a % 2) * (b % 2) + 2 * BitAnd(a \div 2, b \div 2)

BitNot(a) == 255 - a

BitOr(a, b) == a + b - BitAnd(a, b)

\* ------------------------------------------------------------------ inputs
\* Register numbers callers pass (u8): address 0 with and without the top
\* bit, and one other address.
AddrSet == {0, 1, 128}
\* Prefix bytes of the raw prefixed calls: one per direction.
PrefixSet == {0, 129}
\* Byte values callers write.
Bytes == {240, 255}
\* Values of update_reg.
UpdValues == {0, 255}
\* Masks of update_reg.
Masks == {0, 15}
\* Payloads of the write operations: both orders of the two bytes.
RECURSIVE Pattern(_, _)
Pattern(n, first) ==
  IF n = 0 THEN <<>>
  ELSE <<first>> \o Pattern(n - 1, IF first = 255 THEN 240 ELSE 255)

Payloads == {Pattern(n, b) : n \in 0..MaxLen, b \in Bytes}
\* Buffers handed to the read operations (their contents are the outgoing
\* half of the transfer).
ReadBufs == {Pattern(n, 255) : n \in 0..MaxLen}
\* Durations passed to delay_ms / delay_us.
Durations == {0, 5}
\* The device registers kept in the state, of the 128: those a call of this
\* model can address (a burst of MaxLen from address 1 ends at MaxLen), and
\* one beyond them.
RegAddrs == 0..(MaxLen + 1)
\* Content of every device register before the first call.
RegInit == 240

\* --------------------------------------------------------- results and log
Ok == [ok |-> TRUE, origin |-> "none", detail |-> 0]

\* A failure: its origin (the HalError variant) and its detail, which is the
\* position in the log of the step that produced it.
Err(origin, detail) == [ok |-> FALSE, origin |-> origin, detail |-> detail]

Step(m, ev, arg, ok) ==
  [m EXCEPT !.log = Append(@, [ev |-> ev, arg |-> arg, ok |-> ok])]

LastOk(m) == m.log[Len(m.log)].ok

Out(m, res, data, ret) == [m |-> m, res |-> res, data |-> data, ret |-> ret]

\* ------------------------------------------------ external collaborators
\* A pin drive succeeds, or fails either without moving the pin or after
\* having moved it.
PinOutcome == {"ok", "fail_unchanged", "fail_driven"}

Drive(level, target, o) == IF o = "fail_unchanged" THEN level ELSE target

cs_set_low(m) ==
  {Step([m EXCEPT !.cs = Drive(m.cs, "low", o)], "cs.set_low", <<>>, o = "ok")
     : o \in PinOutcome}

cs_set_high(m) ==
  {Step([m EXCEPT !.cs = Drive(m.cs, "high", o)], "cs.set_high", <<>>, o = "ok")
     : o \in PinOutcome}

sdn_set_low(m) ==
  {Step([m EXCEPT !.sdn = Drive(m.sdn, "low", o)], "sdn.set_low", <<>>, o = "ok")
     : o \in PinOutcome}

sdn_set_high(m) ==
  {Step([m EXCEPT !.sdn = Drive(m.sdn, "high", o)], "sdn.set_high", <<>>, o = "ok")
     : o \in PinOutcome}

timer_delay_ms(m, ms) == Step(m, "delay.delay_ms", <<ms>>, TRUE)

timer_delay_us(m, us) == Step(m, "delay.delay_us", <<us>>, TRUE)

\* The device behind the bus: a byte array indexed by the 7-bit address of
\* the prefix; a burst goes to consecutive addresses.
DevAddr(prefix, i) == (BitAnd(prefix[1], AddrMask) + i - 1) % 128

DevIsWrite(prefix) == prefix # <<>> /\ BitAnd(prefix[1], WriteFlag) # 0

\* The registers after the device has taken the first k bytes.
DevStore(regs, prefix, bytes, k) ==
  IF ~DevIsWrite(prefix) THEN regs
  ELSE [a \in RegAddrs |->
          IF \E i \in 1..k : DevAddr(prefix, i) = a
          THEN bytes[CHOOSE i \in 1..k :
                       /\ DevAddr(prefix, i) = a
                       /\ \A j \in 1..k : DevAddr(prefix, j) = a => j <= i]
          ELSE regs[a]]

\* What the device shifts out during a transfer of n bytes.
DevLoad(regs, prefix, n) ==
  IF prefix = <<>> THEN [i \in 1..n |-> 0]
  ELSE [i \in 1..n |-> regs[DevAddr(prefix, i)]]

\* spi.write of the prefix: no register changes.
spi_write_prefix(m, prefix) ==
  {Step(m, "spi.write", prefix, ok) : ok \in BOOLEAN}

\* spi.write of the payload: all of it, or a failure after k bytes.
spi_write_data(m, prefix, data) ==
  {Step([m EXCEPT !.regs = DevStore(m.regs, prefix, data, Len(data))],
        "spi.write", data, TRUE)}
  \cup
  {Step([m EXCEPT !.regs = DevStore(m.regs, prefix, data, k)],
        "spi.write", data, FALSE) : k \in 0..Len(data)}

\* spi.transfer: on success the bytes read; a failure returns nothing.
spi_transfer(m, prefix, write) ==
  {[m |-> Step([m EXCEPT !.regs = DevStore(m.regs, prefix, write, Len(write))],
               "spi.transfer", write, TRUE),
    read |-> DevLoad(m.regs, prefix, Len(write))]}
  \cup
  {[m |-> Step([m EXCEPT !.regs = DevStore(m.regs, prefix, write, k)],
               "spi.transfer", write, FALSE),
    read |-> <<>>] : k \in 0..Len(write)}

\* ------------------------------------------------------------------- state
VARIABLES
  backend,  \* "Base": the adapter of this file; "Other": any other Hal backend
  cs,       \* level of the chip-select pin
  sdn,      \* level of the reset/shutdown pin
  regs,     \* the device's registers
  pc,       \* the caller: "idle", or "returned" while it holds a call's result
  call,     \* the call that returned: operation, arguments, result, log of steps
  prev      \* the call before it, when that was a write that went through

vars == <<backend, cs, sdn, regs, pc, call, prev>>

\* -------------------------------------------------------- Base: primitives
\* Mutant: Base polls a busy line, and the poll can time out.
base_wait_busy_polling(m) == {Step(m, "wait_busy", <<>>, ok) : ok \in BOOLEAN}

\* wait_busy of Base: Ok(()) without touching anything.
base_wait_busy(m) == {Step(m, "wait_busy", <<>>, TRUE)}

\* wait_busy of another backend: whatever its signature allows.
other_wait_busy(m) == {Step(m, "wait_busy", <<>>, ok) : ok \in BOOLEAN}

wait_busy(m) == IF backend = "Base" THEN base_wait_busy(m) ELSE other_wait_busy(m)

\* The error a failed wait_busy returns: only a backend other than Base has
\* one; it is given the timing origin.
BusyErr(m) == Err("Delay", Len(m.log))

PinErr(m) == Err("Pin", Len(m.log))

delay_ms(m, ms) == {Out(timer_delay_ms(m, ms), Ok, <<>>, 0)}

delay_us(m, us) == {Out(timer_delay_us(m, us), Ok, <<>>, 0)}

\* reset: sdn low, 1 ms, sdn high, 10 ms; `?` returns at the first pin failure.
\* Mutant: the 10 ms wait is made before the failure of the pin-high drive is
\* returned.
reset_high_delay_first(m) ==
  {Out(timer_delay_ms(b, ResetHighMs), IF LastOk(b) THEN Ok ELSE PinErr(b), <<>>, 0)
     : b \in sdn_set_high(m)}

reset_high(m) ==
  {IF LastOk(b) THEN Out(timer_delay_ms(b, ResetHighMs), Ok, <<>>, 0)
   ELSE Out(b, PinErr(b), <<>>, 0) : b \in sdn_set_high(m)}

\* Mutant: the failure of the pin-low drive is not looked at.
reset_unchecked(m) ==
  UNION {reset_high(timer_delay_ms(a, ResetLowMs)) : a \in sdn_set_low(m)}

reset(m) ==
  UNION {IF LastOk(a) THEN reset_high(timer_delay_ms(a, ResetLowMs))
         ELSE {Out(a, PinErr(a), <<>>, 0)} : a \in sdn_set_low(m)}

\* match r { Ok(Ok(_)) => Ok(()), Ok(Err(e)) | Err(e) => Err(HalError::Spi(e)) }
SpiResult(r) == IF r.ok THEN Ok ELSE Err("Spi", r.detail)

\* self.cs.set_high().map_err(HalError::Pin)?; match r {...}
\* b: the machine, the bus result r and the caller's buffer after the bus steps.
\* Mutant: a bus failure returns before chip-select is released.
cs_release_after_success(b) ==
  IF ~b.r.ok THEN {Out(b.m, SpiResult(b.r), b.data, 0)}
  ELSE {IF LastOk(c) THEN Out(c, Ok, b.data, 0)
        ELSE Out(c, PinErr(c), b.data, 0) : c \in cs_set_high(b.m)}

\* Mutant: the bus failure is reported in preference to the failed release.
cs_release_bus_first(b) ==
  {IF ~b.r.ok THEN Out(c, SpiResult(b.r), b.data, 0)
   ELSE IF LastOk(c) THEN Out(c, Ok, b.data, 0)
   ELSE Out(c, PinErr(c), b.data, 0) : c \in cs_set_high(b.m)}

cs_release(b) ==
  {IF LastOk(c) THEN Out(c, SpiResult(b.r), b.data, 0)
   ELSE Out(c, PinErr(c), b.data, 0) : c \in cs_set_high(b.m)}

\* let r = self.spi.write(prefix).map(|_| self.spi.write(data));
\* Mutant: the payload is written whatever became of the prefix.
write_and_write(m, prefix, data) ==
  UNION {{[m |-> b,
           r |-> IF ~LastOk(a) THEN Err("Spi", Len(a.log))
                 ELSE IF LastOk(b) THEN Ok ELSE Err("Spi", Len(b.log)),
           data |-> <<>>] : b \in spi_write_data(a, prefix, data)}
           : a \in spi_write_prefix(m, prefix)}

\* Mutant: a failed prefix write is tried a second time.
write_retry_write(m, prefix, data) ==
  UNION {UNION {IF ~LastOk(a) THEN {[m |-> a, r |-> Err("Spi", Len(a.log)), data |-> <<>>]}
                ELSE {[m |-> b,
                       r |-> IF LastOk(b) THEN Ok ELSE Err("Spi", Len(b.log)),
                       data |-> <<>>] : b \in spi_write_data(a, prefix, data)}
                  : a \in spi_write_prefix(IF LastOk(f) THEN m ELSE f, prefix)}
           : f \in spi_write_prefix(m, prefix)}

write_then_write(m, prefix, data) ==
  UNION {IF ~LastOk(a) THEN {[m |-> a, r |-> Err("Spi", Len(a.log)), data |-> <<>>]}
         ELSE {[m |-> b,
                r |-> IF LastOk(b) THEN Ok ELSE Err("Spi", Len(b.log)),
                data |-> <<>>] : b \in spi_write_data(a, prefix, data)}
           : a \in spi_write_prefix(m, prefix)}

\* let r = self.spi.write(prefix).map(|_| self.spi.transfer(write)
\*             .map(|read| data.copy_from_slice(read)));
\* write is the copy of data made before the bus is touched.
\* Mutant: the bytes read are not copied into the caller's buffer.
write_then_transfer_no_copy(m, prefix, data) ==
  UNION {IF ~LastOk(a) THEN {[m |-> a, r |-> Err("Spi", Len(a.log)), data |-> data]}
         ELSE {[m |-> t.m,
                r |-> IF LastOk(t.m) THEN Ok ELSE Err("Spi", Len(t.m.log)),
                data |-> data] : t \in spi_transfer(a, prefix, data)}
           : a \in spi_write_prefix(m, prefix)}

\* Mutant: the outgoing buffer is zero-filled in place of the copy of data.
write_then_transfer_zeroed(m, prefix, data) ==
  LET write == [i \in 1..Len(data) |-> 0] IN
  UNION {IF ~LastOk(a) THEN {[m |-> a, r |-> Err("Spi", Len(a.log)), data |-> data]}
         ELSE {[m |-> t.m,
                r |-> IF LastOk(t.m) THEN Ok ELSE Err("Spi", Len(t.m.log)),
                data |-> IF LastOk(t.m) THEN t.read ELSE data]
                 : t \in spi_transfer(a, prefix, write)}
           : a \in spi_write_prefix(m, prefix)}

write_then_transfer(m, prefix, data) ==
  LET write == data IN
  UNION {IF ~LastOk(a) THEN {[m |-> a, r |-> Err("Spi", Len(a.log)), data |-> data]}
         ELSE {[m |-> t.m,
                r |-> IF LastOk(t.m) THEN Ok ELSE Err("Spi", Len(t.m.log)),
                data |-> IF LastOk(t.m) THEN t.read ELSE data]
                 : t \in spi_transfer(a, prefix, write)}
           : a \in spi_write_prefix(m, prefix)}

\* Mutant: the failure of the chip-select drive is not looked at.
prefix_write_unchecked(m, prefix, data) ==
  UNION {UNION {cs_release(b) : b \in write_then_write(a, prefix, data)}
           : a \in cs_set_low(Step(m, "prefix_write", prefix, TRUE))}

prefix_write(m, prefix, data) ==
  UNION {IF ~LastOk(a) THEN {Out(a, PinErr(a), <<>>, 0)}
         ELSE UNION {cs_release(b) : b \in write_then_write(a, prefix, data)}
           : a \in cs_set_low(Step(m, "prefix_write", prefix, TRUE))}

prefix_read(m, prefix, data) ==
  UNION {IF ~LastOk(a) THEN {Out(a, PinErr(a), data, 0)}
         ELSE UNION {cs_release(b) : b \in write_then_transfer(a, prefix, data)}
           : a \in cs_set_low(Step(m, "prefix_read", prefix, TRUE))}

\* ------------------------------------------------- Hal: derived operations
\* self.wait_busy()?; r      (o: the outcome of the prefixed transaction)
\* Mutant: a failed transaction returns before the second busy-wait.
wait_unless_failed(o) ==
  IF ~o.res.ok THEN {Out(o.m, o.res, o.data, 0)}
  ELSE {IF LastOk(c) THEN Out(c, o.res, o.data, 0)
        ELSE Out(c, BusyErr(c), o.data, 0) : c \in wait_busy(o.m)}

\* Mutant: the result of the second busy-wait is returned in place of r.
wait_and_return_wait(o) ==
  {IF LastOk(c) THEN Out(c, Ok, o.data, 0)
   ELSE Out(c, BusyErr(c), o.data, 0) : c \in wait_busy(o.m)}

wait_then_return(o) ==
  {IF LastOk(c) THEN Out(c, o.res, o.data, 0)
   ELSE Out(c, BusyErr(c), o.data, 0) : c \in wait_busy(o.m)}

\* Mutant: the register number is sent as the caller gave it.
ReadPrefixNoMask(reg) == <<reg>>

ReadPrefix(reg) == <<BitAnd(reg, AddrMask)>>

\* Mutant: the direction flag is not set.
WritePrefixNoFlag(reg) == <<reg>>

WritePrefix(reg) == <<BitOr(reg, WriteFlag)>>

\* Mutant: the result of the first busy-wait is not looked at.
read_regs_unchecked(m, reg, data) ==
  UNION {UNION {wait_then_return(o) : o \in prefix_read(a, ReadPrefix(reg), data)}
           : a \in wait_busy(m)}

read_regs(m, reg, data) ==
  UNION {IF ~LastOk(a) THEN {Out(a, BusyErr(a), data, 0)}
         ELSE UNION {wait_then_return(o) : o \in prefix_read(a, ReadPrefix(reg), data)}
           : a \in wait_busy(m)}

write_regs(m, reg, data) ==
  UNION {IF ~LastOk(a) THEN {Out(a, BusyErr(a), <<>>, 0)}
         ELSE UNION {wait_then_return(o) : o \in prefix_write(a, WritePrefix(reg), data)}
           : a \in wait_busy(m)}

\* Mutant: the buffer write sends the plain prefix 0x00.
write_buff_no_flag(m, data) ==
  UNION {IF ~LastOk(a) THEN {Out(a, BusyErr(a), <<>>, 0)}
         ELSE UNION {wait_then_return(o) : o \in prefix_write(a, <<0>>, data)}
           : a \in wait_busy(m)}

write_buff(m, data) ==
  UNION {IF ~LastOk(a) THEN {Out(a, BusyErr(a), <<>>, 0)}
         ELSE UNION {wait_then_return(o) : o \in prefix_write(a, <<BitOr(0, WriteFlag)>>, data)}
           : a \in wait_busy(m)}

read_buff(m, data) ==
  UNION {IF ~LastOk(a) THEN {Out(a, BusyErr(a), data, 0)}
         ELSE UNION {wait_then_return(o) : o \in prefix_read(a, <<0>>, data)}
           : a \in wait_busy(m)}

\* Mutant: the result of read_regs is dropped.
read_reg_unchecked(m, reg) ==
  {Out(o.m, Ok, <<>>, o.data[1]) : o \in read_regs(m, reg, <<0>>)}

read_reg(m, reg) ==
  {IF o.res.ok THEN Out(o.m, Ok, <<>>, o.data[1]) ELSE Out(o.m, o.res, <<>>, 0)
     : o \in read_regs(m, reg, <<0>>)}

write_reg(m, reg, value) ==
  {Out(o.m, o.res, <<>>, 0) : o \in write_regs(m, reg, <<value>>)}

\* Mutant: the mask is applied the wrong way round.
UpdatedSwapped(existing, mask, value) ==
  BitOr(BitAnd(existing, mask), BitAnd(value, BitNot(mask)))

Updated(existing, mask, value) ==
  BitOr(BitAnd(existing, BitNot(mask)), BitAnd(value, mask))

\* Mutant: the write goes ahead whatever became of the read.
update_reg_unchecked(m, reg, mask, value) ==
  UNION {{IF w.res.ok THEN Out(w.m, Ok, <<>>, Updated(e.ret, mask, value))
          ELSE Out(w.m, w.res, <<>>, 0)
            : w \in write_reg(e.m, reg, Updated(e.ret, mask, value))}
           : e \in read_reg(m, reg)}

update_reg(m, reg, mask, value) ==
  UNION {IF ~e.res.ok THEN {Out(e.m, e.res, <<>>, 0)}
         ELSE {IF w.res.ok THEN Out(w.m, Ok, <<>>, Updated(e.ret, mask, value))
               ELSE Out(w.m, w.res, <<>>, 0)
                 : w \in write_reg(e.m, reg, Updated(e.ret, mask, value))}
           : e \in read_reg(m, reg)}

\* ----------------------------------------------------------------- actions
\* The machine a call starts on.
Machine == [cs |-> cs, sdn |-> sdn, regs |-> regs, log |-> <<>>]

NoCall ==
  [op |-> "none", reg |-> 0, mask |-> 0, value |-> 0, prefix |-> <<>>,
   data |-> <<>>, out |-> <<>>, res |-> Ok, ret |-> 0, log |-> <<>>,
   pre |-> [cs |-> "high", sdn |-> "high", regs |-> [a \in RegAddrs |-> RegInit]]]

\* The call returns with outcome o.
Return(op, reg, mask, value, prefix, data, o) ==
  /\ pc' = "returned"
  /\ cs' = o.m.cs
  /\ sdn' = o.m.sdn
  /\ regs' = o.m.regs
  /\ call' = [op |-> op, reg |-> reg, mask |-> mask, value |-> value,
              prefix |-> prefix, data |-> data, out |-> o.data,
              res |-> o.res, ret |-> o.ret, log |-> o.m.log,
              pre |-> [cs |-> cs, sdn |-> sdn, regs |-> regs]]
  /\ UNCHANGED <<backend, prev>>

\* No step of the call failed.
Clean(c) == \A i \in 1..Len(c.log) : c.log[i].ok

NoPrev == [op |-> "none", reg |-> 0, value |-> 0, data |-> <<>>]

\* The caller takes the result and goes on to its next call.
Resume ==
  /\ pc = "returned"
  /\ pc' = "idle"
  /\ call' = NoCall
  /\ prev' = IF call.op \in {"write_reg", "write_buff"} /\ Clean(call)
             THEN [op |-> call.op, reg |-> call.reg, value |-> call.value,
                   data |-> call.data]
             ELSE NoPrev
  /\ UNCHANGED <<backend, cs, sdn, regs>>

Reset ==
  /\ pc = "idle"
  /\ \E o \in reset(Machine) : Return("reset", 0, 0, 0, <<>>, <<>>, o)

WaitBusy ==
  /\ pc = "idle"
  /\ \E c \in wait_busy(Machine) :
       Return("wait_busy", 0, 0, 0, <<>>, <<>>,
              Out(c, IF LastOk(c) THEN Ok ELSE BusyErr(c), <<>>, 0))

DelayMs ==
  /\ pc = "idle"
  /\ \E ms \in Durations : \E o \in delay_ms(Machine, ms) :
       Return("delay_ms", 0, 0, ms, <<>>, <<>>, o)

DelayUs ==
  /\ pc = "idle"
  /\ \E us \in Durations : \E o \in delay_us(Machine, us) :
       Return("delay_us", 0, 0, us, <<>>, <<>>, o)

PrefixWrite ==
  /\ pc = "idle"
  /\ \E p \in PrefixSet, d \in Payloads : \E o \in prefix_write(Machine, <<p>>, d) :
       Return("prefix_write", 0, 0, 0, <<p>>, d, o)

PrefixRead ==
  /\ pc = "idle"
  /\ \E p \in PrefixSet, d \in ReadBufs : \E o \in prefix_read(Machine, <<p>>, d) :
       Return("prefix_read", 0, 0, 0, <<p>>, d, o)

ReadRegs ==
  /\ pc = "idle"
  /\ \E r \in AddrSet, d \in ReadBufs : \E o \in read_regs(Machine, r, d) :
       Return("read_regs", r, 0, 0, <<>>, d, o)

WriteRegs ==
  /\ pc = "idle"
  /\ \E r \in AddrSet, d \in Payloads : \E o \in write_regs(Machine, r, d) :
       Return("write_regs", r, 0, 0, <<>>, d, o)

WriteBuff ==
  /\ pc = "idle"
  /\ \E d \in Payloads : \E o \in write_buff(Machine, d) :
       Return("write_buff", 0, 0, 0, <<>>, d, o)

ReadBuff ==
  /\ pc = "idle"
  /\ \E d \in ReadBufs : \E o \in read_buff(Machine, d) :
       Return("read_buff", 0, 0, 0, <<>>, d, o)

ReadReg ==
  /\ pc = "idle"
  /\ \E r \in AddrSet : \E o \in read_reg(Machine, r) :
       Return("read_reg", r, 0, 0, <<>>, <<>>, o)

WriteReg ==
  /\ pc = "idle"
  /\ \E r \in AddrSet, v \in Bytes : \E o \in write_reg(Machine, r, v) :
       Return("write_reg", r, 0, v, <<>>, <<>>, o)

UpdateReg ==
  /\ pc = "idle"
  /\ \E r \in AddrSet, k \in Masks, v \in UpdValues : \E o \in update_reg(Machine, r, k, v) :
       Return("update_reg", r, k, v, <<>>, <<>>, o)

Init ==
  /\ backend \in {"Base", "Other"}
  /\ cs = "high"
  /\ sdn = "high"
  /\ regs = [a \in RegAddrs |-> RegInit]
  /\ pc = "idle"
  /\ call = NoCall
  /\ prev = NoPrev

Next ==
  \/ Reset
  \/ WaitBusy
  \/ DelayMs
  \/ DelayUs
  \/ PrefixWrite
  \/ PrefixRead
  \/ ReadRegs
  \/ WriteRegs
  \/ WriteBuff
  \/ ReadBuff
  \/ ReadReg
  \/ WriteReg
  \/ UpdateReg
  \/ Resume

Spec == Init /\ [][Next]_vars

\* ------------------------------------------------------------------ claims
RawOps == {"prefix_read", "prefix_write"}

BracketOps == {"read_regs", "write_regs", "read_buff", "write_buff"}

CsEvs == {"cs.set_low", "cs.set_high"}

BusEvs == {"spi.write", "spi.transfer"}

Returned(ops) == pc = "returned" /\ call.op \in ops

\* Positions in the log of the call c of the steps named in evs.
Idx(c, evs) == {i \in 1..Len(c.log) : c.log[i].ev \in evs}

Failed(c, evs) == {i \in Idx(c, evs) : ~c.log[i].ok}

\* The log of a raw prefixed call: 1 the call, 2 cs.set_low, 3 the prefix
\* write, then the payload step and cs.set_high.
AssertOk(c) == Len(c.log) >= 2 /\ c.log[2].ev = "cs.set_low" /\ c.log[2].ok

PrefixFailed(c) == Len(c.log) >= 3 /\ c.log[3].ev = "spi.write" /\ ~c.log[3].ok

C2_AssertReleasePaired ==
  Returned({"prefix_write"}) =>
    /\ Cardinality(Idx(call, {"cs.set_low"})) = 1
    /\ Cardinality(Idx(call, {"cs.set_high"})) = 1

\* C3 as claimed: when the prefix write fails, no payload step is attempted,
\* the release is performed and the call returns the Spi failure of the
\* prefix write.
C3_PrefixFailureReturned ==
  Returned(RawOps) /\ PrefixFailed(call) =>
    /\ Idx(call, BusEvs) = {3}
    /\ Idx(call, {"cs.set_high"}) = {4}
    /\ call.res = Err("Spi", 3)

\* C3 amended: when the prefix write fails, no payload step is attempted, the
\* release is performed, and the call returns the Spi failure of the prefix
\* write if the release succeeds, the Pin failure of the release if not.
C3_PrefixFailureUnlessReleaseFails ==
  Returned(RawOps) /\ PrefixFailed(call) =>
    /\ Idx(call, BusEvs) = {3}
    /\ Idx(call, {"cs.set_high"}) = {4}
    /\ Len(call.log) = 4
    /\ call.res = IF call.log[4].ok THEN Err("Spi", 3) ELSE Err("Pin", 4)

\* C3 witness: a prefixed read whose prefix write failed returned the Spi
\* failure, chip-select released.
C3_Witness ==
  /\ Returned({"prefix_read"})
  /\ PrefixFailed(call)
  /\ call.res = Err("Spi", 3)
  /\ cs = "high"

\* C4: once asserted, the release is attempted after the bus steps whatever
\* their outcome, as the last step of the call, and a failed release is what
\* the call returns (Pin), also after a bus failure.
C4_ReleaseAlwaysAttempted ==
  Returned(RawOps) /\ AssertOk(call) =>
    LET n == Len(call.log) IN
    /\ Idx(call, {"cs.set_high"}) = {n}
    /\ Idx(call, BusEvs) # {}
    /\ \A i \in Idx(call, BusEvs) : i < n
    /\ ~call.log[n].ok => call.res = Err("Pin", n)

\* C4 witness: a bus step and the release both failed; the Pin failure is
\* returned.
C4_Witness ==
  /\ Returned(RawOps)
  /\ Failed(call, BusEvs) # {}
  /\ Failed(call, {"cs.set_high"}) # {}
  /\ call.res.origin = "Pin"

\* The call's prefixed transaction failed.
TxFailed(c) == Failed(c, CsEvs \cup BusEvs) # {}

\* C5: read_regs, write_regs, read_buff and write_buff call wait_busy once
\* before their one prefixed transaction and once right after it, whether it
\* succeeded or failed (the first wait_busy having succeeded).
C5_BusyBracket ==
  Returned(BracketOps) /\ call.log[1].ok =>
    LET n == Len(call.log) IN
    /\ Idx(call, {"wait_busy"}) = {1, n}
    /\ Idx(call, RawOps) = {2}
    /\ n >= 4
    /\ call.log[2].ev =
         (IF call.op \in {"read_regs", "read_buff"} THEN "prefix_read"
          ELSE "prefix_write")

\* C5 witness: the transaction failed and wait_busy was called before and
\* after it.
C5_Witness ==
  /\ Returned(BracketOps)
  /\ TxFailed(call)
  /\ Idx(call, {"wait_busy"}) = {1, Len(call.log)}

\* The result is the failure of a step of the prefixed transaction, with the
\* origin of that step.
IsTxError(c) ==
  /\ ~c.res.ok
  /\ c.res.detail \in Failed(c, CsEvs \cup BusEvs)
  /\ c.res.origin = (IF c.log[c.res.detail].ev \in CsEvs THEN "Pin" ELSE "Spi")

\* C6 as claimed: when the prefixed read of read_regs fails, both busy-waits
\* run and read_regs returns the read's error, whatever the second wait_busy
\* returns.
C6_ReadErrorReturned ==
  Returned({"read_regs"}) /\ TxFailed(call) =>
    /\ Cardinality(Idx(call, {"wait_busy"})) = 2
    /\ IsTxError(call)

\* C6 amended: when the prefixed read of read_regs fails, both busy-waits
\* run; read_regs returns the read's error if the second wait_busy succeeds,
\* and the failure of the second wait_busy if it fails.
C6_ReadErrorUnlessWaitFails ==
  Returned({"read_regs"}) /\ TxFailed(call) =>
    LET n == Len(call.log) IN
    /\ Idx(call, {"wait_busy"}) = {1, n}
    /\ IF call.log[n].ok THEN IsTxError(call) ELSE call.res = Err("Delay", n)

\* C6 witness: the read failed, the second wait_busy succeeded, and the
\* read's Spi failure is returned.
C6_Witness ==
  /\ Returned({"read_regs"})
  /\ TxFailed(call)
  /\ call.log[Len(call.log)].ev = "wait_busy"
  /\ call.log[Len(call.log)].ok
  /\ call.res.origin = "Spi"

\* C7: when the first wait_busy of read_regs, write_regs, read_buff or
\* write_buff fails, the operation returns that failure and nothing else
\* happens: no prefixed call, no chip-select or bus step, pin and registers
\* as before.
C7_BusyFailureAborts ==
  Returned(BracketOps) /\ ~call.log[1].ok =>
    /\ call.log[1].ev = "wait_busy"
    /\ Len(call.log) = 1
    /\ call.res = Err("Delay", 1)
    /\ cs = call.pre.cs
    /\ regs = call.pre.regs
    /\ call.out = (IF call.op \in {"read_regs", "read_buff"} THEN call.data ELSE <<>>)

\* C7 witness: a write_regs whose first wait_busy failed.
C7_Witness ==
  /\ Returned({"write_regs"})
  /\ call.data # <<>>
  /\ ~call.log[1].ok

\* C8: a successful update_reg(a, m, v), a in 0..127, writes to register a
\* the byte whose bits outside m are those of the register before the call
\* and whose bits inside m are those of v, and returns that byte.
C8_UpdateRegMasked ==
  Returned({"update_reg"}) /\ call.res.ok /\ call.reg <= AddrMask =>
    LET existing == call.pre.regs[call.reg]
        written == regs[call.reg]
    IN /\ BitAnd(written, BitNot(call.mask)) = BitAnd(existing, BitNot(call.mask))
       /\ BitAnd(written, call.mask) = BitAnd(call.value, call.mask)
       /\ call.ret = written
       /\ call.log[12] = [ev |-> "spi.write", arg |-> <<written>>, ok |-> TRUE]
       /\ call.log[11].arg = <<call.reg + WriteFlag>>

\* C8 witness: register 255, mask 0x0F, value 0: 0xF0 is written and
\* returned.
C8_Witness ==
  /\ Returned({"update_reg"})
  /\ call.res.ok
  /\ call.reg = 1
  /\ call.pre.regs[1] = 255
  /\ call.mask = 15
  /\ call.value = 0
  /\ call.ret = 240
  /\ regs[1] = 240

\* C9: when no step fails, read_reg(a) right after write_reg(a, v) returns v;
\* write_reg changes no register but that of a and read_reg changes none.
C9_WriteReadRoundTrip ==
  /\ Returned({"read_reg"}) /\ Clean(call) /\ prev.op = "write_reg"
       /\ prev.reg = call.reg
     => call.res.ok /\ call.ret = prev.value
  /\ Returned({"write_reg"}) /\ Clean(call)
     => \A b \in RegAddrs \ {BitAnd(call.reg, AddrMask)} : regs[b] = call.pre.regs[b]
  /\ Returned({"read_reg"}) /\ Clean(call) => regs = call.pre.regs

\* C9 witness: read_reg(1) right after write_reg(1, 0xFF) returned 0xFF.
C9_Witness ==
  /\ Returned({"read_reg"})
  /\ Clean(call)
  /\ prev = [op |-> "write_reg", reg |-> 1, value |-> 255, data |-> <<>>]
  /\ call.reg = 1
  /\ call.ret = 255

\* C10: reset drives the reset pin low, waits 1 ms, drives it high, waits
\* 10 ms, in that order and each once; if the pin-low drive fails nothing
\* else is attempted and the Pin failure is returned.
C10_ResetSequence ==
  Returned({"reset"}) =>
    /\ call.log[1].ev = "sdn.set_low"
    /\ IF ~call.log[1].ok
       THEN Len(call.log) = 1 /\ call.res = Err("Pin", 1)
       ELSE /\ Len(call.log) >= 3
            /\ call.log[2] = [ev |-> "delay.delay_ms", arg |-> <<1>>, ok |-> TRUE]
            /\ call.log[3].ev = "sdn.set_high"
            /\ call.log[3].ok =>
                 /\ Len(call.log) = 4
                 /\ call.log[4] = [ev |-> "delay.delay_ms", arg |-> <<10>>, ok |-> TRUE]
                 /\ call.res = Ok

\* C10 witness: a reset that went through, the reset pin high.
C10_Witness ==
  /\ Returned({"reset"})
  /\ call.res.ok
  /\ Len(call.log) = 4
  /\ sdn = "high"

\* C11: for every register number r, also with the top bit set, read_regs
\* sends the one prefix byte r & 0x7F and write_regs the one prefix byte
\* (r & 0x7F) | 0x80: r and r | 0x80 give the same prefix, and the two
\* prefixes of one r differ in bit 7 only.
C11_PrefixEncoding ==
  /\ Returned({"read_regs", "write_regs"}) /\ Len(call.log) >= 2 =>
       LET p == IF call.op = "read_regs" THEN call.reg % 128
                ELSE (call.reg % 128) + 128
       IN /\ call.log[2].arg = <<p>>
          /\ call.log[3].ok =>
               call.log[4] = [ev |-> "spi.write", arg |-> <<p>>, ok |-> call.log[4].ok]
  /\ Returned({"read_regs", "write_regs"}) =>
       LET r == call.reg IN
       /\ ReadPrefix(r) = ReadPrefix(BitOr(r, WriteFlag))
       /\ WritePrefix(r) = WritePrefix(BitOr(r, WriteFlag))
       /\ WritePrefix(r)[1] = ReadPrefix(r)[1] + WriteFlag

\* C11 witness: read_regs(0x80, ..) sent the prefix 0x00.
C11_Witness ==
  /\ Returned({"read_regs"})
  /\ call.reg = 128
  /\ Len(call.log) >= 4
  /\ call.log[4] = [ev |-> "spi.write", arg |-> <<0>>, ok |-> TRUE]

\* C12: when no step fails, read_buff of N bytes right after write_buff of N
\* bytes returns those N bytes in their order.
C12_BufferRoundTrip ==
  Returned({"read_buff"}) /\ Clean(call) /\ prev.op = "write_buff"
    /\ Len(prev.data) = Len(call.data)
  => call.res.ok /\ call.out = prev.data

\* C12 witness: the two bytes 0xF0, 0xFF written, then read into a buffer
\* that held 0xFF, 0xF0.
C12_Witness ==
  /\ Returned({"read_buff"})
  /\ Clean(call)
  /\ prev.op = "write_buff"
  /\ prev.data = <<240, 255>>
  /\ call.data = <<255, 240>>
  /\ call.out = <<240, 255>>

AllEvs == CsEvs \cup BusEvs \cup {"wait_busy", "sdn.set_low", "sdn.set_high"}

\* The origin the failure of a step is reported with.
OriginOf(ev) ==
  IF ev \in BusEvs THEN "Spi" ELSE IF ev = "wait_busy" THEN "Delay" ELSE "Pin"

\* C13: a call returns success only if every pin drive, bus step and
\* busy-wait it made succeeded; if one failed it returns one failure, that of
\* a step that failed, tagged with the origin of that step.
C13_NoFailureSwallowed ==
  pc = "returned" =>
    /\ call.res.ok <=> Failed(call, AllEvs) = {}
    /\ ~call.res.ok =>
         /\ call.res.detail \in Failed(call, AllEvs)
         /\ call.res.origin = OriginOf(call.log[call.res.detail].ev)

\* C13 witness: an update_reg whose write transaction failed on the bus.
C13_Witness ==
  /\ Returned({"update_reg"})
  /\ Len(call.log) > 9
  /\ call.res.origin = "Spi"
  /\ call.res.detail > 9

\* The bus step at position i of the log lies between a chip-select assertion
\* that succeeded, with no release between the two, and a release after it.
InWindow(c, i) ==
  /\ \E j \in 1..(i - 1) :
       /\ c.log[j].ev = "cs.set_low" /\ c.log[j].ok
       /\ \A k \in (j + 1)..(i - 1) : c.log[k].ev \notin CsEvs
  /\ \E k \in (i + 1)..Len(c.log) : c.log[k].ev = "cs.set_high"

\* C14: every bus step of every operation happens inside a window opened by a
\* successful chip-select assertion and closed by a release; a prefixed call
\* whose assertion fails returns the pin failure and puts no byte on the bus.
C14_BusInsideWindow ==
  pc = "returned" =>
    /\ \A i \in Idx(call, BusEvs) : InWindow(call, i)
    /\ call.op \in RawOps /\ ~call.log[2].ok =>
         /\ call.res = Err("Pin", 2)
         /\ Idx(call, BusEvs) = {}

\* A prefixed write whose chip-select assertion failed.
C14_Witness ==
  /\ Returned({"prefix_write"}) /\ ~call.log[2].ok
  /\ call.data # <<>> /\ call.res.origin = "Pin"

\* C15: on the Base adapter wait_busy, delay_ms and delay_us always return Ok
\* and leave the pins and the device alone (wait_busy does nothing at all, a
\* delay only blocks on the timer); no operation of Base returns the Delay
\* variant, and no busy-wait of Base fails.
C15_BaseTimingInfallible ==
  pc = "returned" /\ backend = "Base" =>
    /\ call.res.origin # "Delay"
    /\ Failed(call, {"wait_busy"}) = {}
    /\ call.op \in {"wait_busy", "delay_ms", "delay_us"} =>
         /\ call.res = Ok
         /\ <<cs, sdn, regs>> = <<call.pre.cs, call.pre.sdn, call.pre.regs>>
         /\ Len(call.log) = 1
         /\ call.log[1] =
              IF call.op = "wait_busy" THEN [ev |-> "wait_busy", arg |-> <<>>, ok |-> TRUE]
              ELSE IF call.op = "delay_ms"
                   THEN [ev |-> "delay.delay_ms", arg |-> <<call.value>>, ok |-> TRUE]
                   ELSE [ev |-> "delay.delay_us", arg |-> <<call.value>>, ok |-> TRUE]

\* Base's wait_busy returned Ok while chip-select was left low by a failed call.
C15_Witness ==
  /\ Returned({"wait_busy"}) /\ backend = "Base"
  /\ call.res = Ok /\ call.pre.cs = "low"

\* The positions of the log where a prefixed transaction starts.
Transactions(c) == Idx(c, RawOps)

\* C16: nothing is retried.  A register or buffer operation whose first
\* busy-wait succeeded makes exactly one prefixed transaction (none when the
\* wait failed); a prefixed transaction asserts chip-select once, writes the
\* prefix at most once and runs at most one payload step, directly after a
\* prefix write that succeeded; a step that failed is followed by no bus step.
C16_NoRetry ==
  Returned(BracketOps \cup RawOps) =>
    /\ Cardinality(Transactions(call)) =
         IF call.op \in RawOps \/ call.log[1].ok THEN 1 ELSE 0
    /\ Cardinality(Idx(call, {"cs.set_low"})) <= 1
    /\ Cardinality(Idx(call, {"cs.set_high"})) <= 1
    /\ Cardinality(Idx(call, BusEvs)) <= 2
    /\ \A i \in Idx(call, BusEvs) :
         \/ /\ call.log[i - 1].ev = "cs.set_low"
            /\ call.log[i].ev = "spi.write"
         \/ /\ call.log[i - 1].ev = "spi.write" /\ call.log[i - 1].ok
            /\ call.log[i - 2].ev = "cs.set_low"
    /\ \A i \in Failed(call, AllEvs) :
         \A k \in (i + 1)..Len(call.log) : call.log[k].ev \notin BusEvs

\* A buffer write whose prefix write failed: one bus step, then the release.
C16_Witness ==
  /\ Returned({"write_buff"}) /\ call.data # <<>>
  /\ PrefixFailed([log |-> Tail(call.log)])
  /\ Cardinality(Idx(call, BusEvs)) = 1
  /\ Cardinality(Transactions(call)) = 1

\* The transfer of a prefixed read went through.
Transferred(c) == \E i \in Idx(c, {"spi.transfer"}) : c.log[i].ok

\* C17: in prefix_read the bytes sent by the transfer are the caller's buffer
\* as it was at the call; the buffer holds the bytes received when the
\* transfer succeeded, and otherwise (chip-select assertion, prefix write or
\* transfer failed) exactly what it held before the call.
C17_ReadBufferFrame ==
  Returned({"prefix_read"}) =>
    /\ \A i \in Idx(call, {"spi.transfer"}) : call.log[i].arg = call.data
    /\ call.out = IF Transferred(call)
                  THEN DevLoad(call.pre.regs, call.prefix, Len(call.data))
                  ELSE call.data
    /\ ~AssertOk(call) \/ PrefixFailed(call) => ~Transferred(call)

\* A prefixed read whose transfer failed: the buffer is as the caller gave it.
C17_Witness ==
  /\ Returned({"prefix_read"}) /\ call.data = <<255, 240>>
  /\ Idx(call, {"spi.transfer"}) = {4} /\ ~call.log[4].ok
  /\ call.out = <<255, 240>> /\ call.res = Err("Spi", 4)

\* The steps of read_reg in the log of update_reg: the seven steps of a
\* register read, fewer when the read stopped early.
ReadSteps(c) == 1..(IF Len(c.log) < 7 THEN Len(c.log) ELSE 7)

\* The failures of the read_reg step of update_reg.
ReadFailures(c) == Failed(c, AllEvs) \cap ReadSteps(c)

\* C18: update_reg aborts when its read fails: it returns the read's error,
\* starts no write transaction and puts no step after the read, and the
\* registers are as before the call; a write transaction, when there is one,
\* starts after the whole read, trailing busy-wait included, went through.
C18_UpdateAbortsOnReadFailure ==
  Returned({"update_reg"}) =>
    /\ ReadFailures(call) # {} =>
         /\ ~call.res.ok /\ call.res.detail \in ReadFailures(call)
         /\ Len(call.log) <= 7
         /\ Idx(call, {"prefix_write"}) = {}
         /\ regs = call.pre.regs
    /\ ReadFailures(call) = {} =>
         Len(call.log) >= 8 /\ call.log[8].ev = "wait_busy"
    /\ \A i \in Idx(call, {"prefix_write"}) :
         /\ i = 9
         /\ ReadFailures(call) = {}
         /\ call.log[2].ev = "prefix_read" /\ call.log[5].ev = "spi.transfer"
         /\ call.log[7].ev = "wait_busy"

\* update_reg whose read failed in the transfer: seven steps, registers as before.
C18_Witness ==
  /\ Returned({"update_reg"}) /\ Len(call.log) = 7
  /\ call.log[5].ev = "spi.transfer" /\ ~call.log[5].ok
  /\ call.res = Err("Spi", 5) /\ regs = call.pre.regs
  /\ call.value = 255 /\ call.mask = 15

\* C19: when the pin-high drive of reset fails, after the pin-low drive and
\* the 1 ms wait, reset returns that pin failure and makes no 10 ms wait; and
\* reset, however it ends, drives chip-select at no point and puts nothing on
\* the bus: chip-select and the registers are as before the call.
C19_ResetHighFailure ==
  Returned({"reset"}) =>
    /\ Len(call.log) >= 3 /\ ~call.log[3].ok =>
         /\ call.log[1] = [ev |-> "sdn.set_low", arg |-> <<>>, ok |-> TRUE]
         /\ call.log[2] = [ev |-> "delay.delay_ms", arg |-> <<ResetLowMs>>, ok |-> TRUE]
         /\ call.log[3].ev = "sdn.set_high"
         /\ Len(call.log) = 3
         /\ call.res = Err("Pin", 3)
    /\ Idx(call, CsEvs \cup BusEvs \cup RawOps) = {}
    /\ cs = call.pre.cs /\ regs = call.pre.regs

\* reset stopped by the pin-high drive, the pin left low, chip-select low
\* from an earlier failed call.
C19_Witness ==
  /\ Returned({"reset"}) /\ Len(call.log) = 3 /\ ~call.log[3].ok
  /\ sdn = "low" /\ cs = "low"

\* The machine the returned call started on.
PreMachine(c) ==
  [cs |-> c.pre.cs, sdn |-> c.pre.sdn, regs |-> c.pre.regs, log |-> <<>>]

\* The outcome of the returned call: the machine it left, with the steps it
\* took, its result and the caller's buffer.
Observed(c) ==
  Out([cs |-> cs, sdn |-> sdn, regs |-> regs, log |-> c.log], c.res, c.out, c.ret)

\* The two register numbers that address the same register as the FIFO.
FifoRegs == {r \in AddrSet : r % 128 = 0}

\* C20: register 0 and the FIFO are one framing.  From every state a call can
\* start in, read_regs(0, buf) and read_regs(0x80, buf) have exactly the
\* outcomes of read_buff(buf) (the steps taken, the result, the buffer, the
\* pins and registers left), and write_regs(0, data) and
\* write_regs(0x80, data) exactly those of write_buff(data).
C20_FifoIsRegisterZero ==
  pc = "idle" =>
    /\ \A r \in FifoRegs, d \in ReadBufs :
         read_regs(Machine, r, d) = read_buff(Machine, d)
    /\ \A r \in FifoRegs, d \in Payloads :
         write_regs(Machine, r, d) = write_buff(Machine, d)

\* write_regs(0x80, data) stopped in the middle of its payload: an outcome
\* write_buff(data) has too.
C20_Witness ==
  /\ Returned({"write_regs"}) /\ call.reg = 128 /\ call.data = <<240, 255>>
  /\ Len(call.log) = 7 /\ ~call.log[5].ok
  /\ regs[0] = 240 /\ call.pre.regs[0] = 255
  /\ Observed(call) \in write_buff(PreMachine(call), call.data)

====
